---- MODULE Spec2Model ----
(***************************************************************************)
(* Model of mcp_blockchain/server.py: the retry decorator, the RPC         *)
(* endpoint selector get_web3, the storage-slot readers and the tool       *)
(* check_contract_owner.                                                   *)
(*                                                                         *)
(* Strings are sequences of one-character strings.  An address has AddrLen *)
(* hex characters (40 in the program) and a storage word one more (64 in   *)
(* the program); the "0x" prefix is left out on both sides.                *)
(***************************************************************************)
EXTENDS Integers, Sequences, FiniteSets, TLC

VARIABLES
    address,         \* the argument of check_contract_owner
    pc,              \* position of the call in the handler
    max_retries,     \* the decorator argument of the wrapper that is running
    attempt,         \* the wrapper's loop variable
    last_exception,  \* the wrapper's last_exception
    sleeps,          \* the delays the wrapper has slept, in order
    op_calls,        \* how often the wrapper has invoked the wrapped function
    rpc_idx,         \* position of get_web3's loop over PUBLIC_RPCS
    gw_invoked,      \* number of invocations of (decorated) get_web3
    gw_log,          \* endpoints whose liveness was checked by get_web3, in order
    gw_ok,           \* positions in gw_log of the checks that answered True
    web3,            \* index of the endpoint of the handle in use, 0 for none
    recheck,         \* number of is_connected() calls made by the tool itself
    proxy,           \* to_checksum(address)
    proxy_owner,
    impl,
    impl_owner,
    m_idx,           \* position of the loop over methods
    result,          \* the list of report lines
    calls,           \* storage reads and contract calls sent, with the answers
    ret,             \* the value returned by the tool
    tool,            \* the tool that is running
    delay,           \* the decorator argument delay of the wrapper that is running
    req,             \* the requests of ConcSpec, each with its own locals
    rpcs,            \* the module-level list PUBLIC_RPCS as ConcSpec's requests see it
    chain            \* ConcSpec: what the endpoints and the chain answer

vars == <<address, pc, max_retries, attempt, last_exception, sleeps, op_calls,
          rpc_idx, gw_invoked, gw_log, gw_ok, web3, recheck, proxy, proxy_owner,
          impl, impl_owner, m_idx, result, calls, ret, tool, delay, req, rpcs, chain>>

----------------------------------------------------------------------------
(* Program constants *)

PUBLIC_RPCS ==
    << "https://eth.llamarpc.com", "https://ethereum.publicnode.com",
       "https://eth-mainnet.public.blastapi.io", "https://cloudflare-eth.com" >>

DEFAULT_MAX_RETRIES == 3

DEFAULT_DELAY == 1

methods == << "owner", "getOwner", "admin", "getAdmin" >>

\* Number of hex characters of an address (40 in the program, scaled down).
AddrLen == 2

IMPL_SLOT == "keccak(eip1967.proxy.implementation)-1"

ZERO_SLOT == "0"

\* Python's None, as a string that no address equals.
None == << "None" >>

----------------------------------------------------------------------------
(* Bounds *)

\* Largest max_retries the decorator is configured with in RetrySpec.
MaxRetries == 4

\* Largest delay the decorator is configured with in RetrySpec.
MaxDelay == 2

----------------------------------------------------------------------------
(* Strings and addresses *)

LowerHex == { "0", "1", "a" }

UpperOf(c) == IF c = "a" THEN "A" ELSE c

LowerOf(c) == IF c = "A" THEN "a" ELSE c

HexChars == LowerHex \cup { "A" }

HexVal(c) == CASE c = "0" -> 0 [] c = "1" -> 1 [] c = "a" -> 10 [] c = "A" -> 10 [] OTHER -> 0

RECURSIVE SumVal(_)
SumVal(s) == IF s = << >> THEN 0 ELSE HexVal(Head(s)) + SumVal(Tail(s))

\* int(s, 16) != 0 for a hex string s
int16_nonzero(s) == \E i \in 1..Len(s) : HexVal(s[i]) # 0

Lower(s) == [ i \in 1..Len(s) |-> LowerOf(s[i]) ]

\* Stand-in for the keccak nibble test of EIP-55: whether the hash nibble at
\* position i of the lower-case address is >= 8.
HashNibbleHigh(low, i) == (SumVal(low) + i) % 2 = 1

to_checksum_address(s) ==
    LET low == Lower(s)
    IN  [ i \in 1..Len(s) |-> IF HashNibbleHigh(low, i) THEN UpperOf(low[i]) ELSE low[i] ]

\* Values that are not strings: None and the integer 123.
NonText == { None, << "123" >> }

is_text(s) == s \notin NonText

is_hex_address(s) ==
    /\ is_text(s)
    /\ Len(s) = AddrLen
    /\ \A i \in 1..Len(s) : s[i] \in HexChars

islower(s) == (\E i \in 1..Len(s) : s[i] = "a") /\ (\A i \in 1..Len(s) : s[i] # "A")

isupper(s) == (\E i \in 1..Len(s) : s[i] = "A") /\ (\A i \in 1..Len(s) : s[i] # "a")

isnumeric(s) == Len(s) > 0 /\ \A i \in 1..Len(s) : s[i] \in { "0", "1" }

is_checksum_formatted(s) == ~islower(s) /\ ~isupper(s) /\ ~isnumeric(s)

is_address(s) ==
    /\ is_hex_address(s)
    /\ is_checksum_formatted(s) => to_checksum_address(s) = s

to_checksum(addr) == to_checksum_address(addr)

\* web3.is_checksum_address
is_checksum_address(s) == is_hex_address(s) /\ to_checksum_address(s) = s

\* raw.hex()[-40:]
Last40(raw) ==
    IF Len(raw) <= AddrLen THEN raw ELSE SubSeq(raw, Len(raw) - AddrLen + 1, Len(raw))

----------------------------------------------------------------------------
(* What the environment can answer *)

\* Arguments the tool is called with.
Inputs ==
    { << >>, << "0" >>, << "0", "g" >>, << "0", "1", "1" >>, << "a", "A" >>,
      << "0", "0" >>, << "0", "1" >>, << "1", "a" >>, << "A", "a" >> }

Fail == [ ok |-> FALSE, val |-> << >> ]

Answer(v) == [ ok |-> TRUE, val |-> v ]

\* Arguments validate_ethereum_address is called with.
ValidateInputs == Inputs \cup NonText

\* Answers to eth_getStorageAt: an RPC failure or a storage word.
StorageAnswers ==
    { Fail } \cup { Answer(w) : w \in { << "0", "0", "0" >>, << "0", "0", "1" >>,
                                         << "0", "1", "a" >>, << "1", "0", "0" >> } }

\* Answers to an owner-style call: a revert, or the decoded return value.
CallAnswers ==
    { Fail } \cup { Answer(v) : v \in { << "0", "0" >>, << "1", "a" >>, << "1" >> } }

\* Answers of a liveness check: True, False, or an exception.
LivenessAnswers == { "True", "False", "raise" }

NoRet == [ kind |-> "none", text |-> "", lines |-> << >> ]

----------------------------------------------------------------------------
(* retry_on_failure: the parts of wrapper() *)

\* last_exception = None; for attempt in range(max_retries):
WrapperStart(n) ==
    /\ max_retries' = n
    /\ attempt' = 0
    /\ last_exception' = "None"
    /\ op_calls' = 0

\* Mutant: the wrapper keeps the first exception instead of the last.
WrapperExcept_KeepsFirst(e) ==
    /\ last_exception' = IF last_exception = "None" THEN e ELSE last_exception
    /\ sleeps' = IF attempt < max_retries - 1
                 THEN Append(sleeps, delay * (attempt + 1))
                 ELSE sleeps
    /\ attempt' = attempt + 1
    /\ UNCHANGED max_retries

\* Mutant: the backoff doubles, as the comment in the source says.
WrapperExcept_Exponential(e) ==
    /\ last_exception' = e
    /\ sleeps' = IF attempt < max_retries - 1
                 THEN Append(sleeps, delay * (2 ^ attempt))
                 ELSE sleeps
    /\ attempt' = attempt + 1
    /\ UNCHANGED max_retries

\* except Exception as e: remember it, sleep unless this was the last attempt,
\* and go to the next iteration.
WrapperExcept(e) ==
    /\ last_exception' = e
    /\ sleeps' = IF attempt < max_retries - 1
                 THEN Append(sleeps, delay * (attempt + 1))
                 ELSE sleeps
    /\ attempt' = attempt + 1
    /\ UNCHANGED max_retries

\* Mutant: the loop runs once more than max_retries.
WrapperExhausted_OneMore == attempt > max_retries

\* The for loop has run out: raise last_exception comes next.
WrapperExhausted == attempt >= max_retries

----------------------------------------------------------------------------
(* The bodies of the decorated storage readers: what one invocation does    *)
(* with the answer of eth_getStorageAt.                                     *)

Returned(v) == [ raised |-> FALSE, val |-> v, err |-> "None" ]

Raised(e) == [ raised |-> TRUE, val |-> None, err |-> e ]

\* Mutant: the reader without its try/except, an RPC failure escapes.
read_owner_slot_Raises(ans) ==
    IF ~ans.ok
    THEN Raised("RPC error")
    ELSE LET owner == Last40(ans.val)
         IN  IF is_address(owner) /\ int16_nonzero(owner)
             THEN Returned(to_checksum(owner))
             ELSE Returned(None)

\* Mutant: the reader without the test for the zero address.
read_owner_slot_NoZeroCheck(ans) ==
    IF ~ans.ok
    THEN Returned(None)
    ELSE LET owner == Last40(ans.val)
         IN  IF is_address(owner)
             THEN Returned(to_checksum(owner))
             ELSE Returned(None)

read_owner_slot(ans) ==
    IF ~ans.ok
    THEN Returned(None)
    ELSE LET owner == Last40(ans.val)
         IN  IF is_address(owner) /\ int16_nonzero(owner)
             THEN Returned(to_checksum(owner))
             ELSE Returned(None)

\* Mutant: the address is taken from the high-order end of the word.
get_eip1967_impl_HighBytes(ans) ==
    IF ~ans.ok
    THEN Returned(None)
    ELSE LET i == SubSeq(ans.val, 1, AddrLen)
         IN  IF is_address(i) /\ int16_nonzero(i)
             THEN Returned(to_checksum(i))
             ELSE Returned(None)

get_eip1967_impl(ans) ==
    IF ~ans.ok
    THEN Returned(None)
    ELSE LET i == Last40(ans.val)
         IN  IF is_address(i) /\ int16_nonzero(i)
             THEN Returned(to_checksum(i))
             ELSE Returned(None)

----------------------------------------------------------------------------
(* Report lines and return values of check_contract_owner *)

Line(k, at, m, o) == [ kind |-> k, at |-> at, method |-> m, owner |-> o ]

ProxyOwnerLine(p, o) == Line("Proxy owner (slot 0)", p, "", o)

ImplLine(i) == Line("Implementation contract", i, "", None)

ImplOwnerLine(i, o) == Line("Implementation owner (slot 0)", i, "", o)

ImplProbeLine(m, o) == Line("Implementation owner (via method)", None, m, o)

ContractProbeLine(m, o) == Line("Contract owner (via method)", None, m, o)

RetInvalid == [ kind |-> "invalid", text |-> "Invalid contract address.", lines |-> << >> ]

RetCannotConnect ==
    [ kind |-> "cannot_connect", text |-> "Error: Cannot connect to Ethereum network.",
      lines |-> << >> ]

\* f"Error checking contract owner: {str(e)}": text holds str(e)
RetError(e) == [ kind |-> "error", text |-> e, lines |-> << >> ]

RetNotFound ==
    [ kind |-> "not_found",
      text |-> "Contract does not implement an Ownable interface or owner could not be read.",
      lines |-> << >> ]

RetReport(r) == [ kind |-> "report", text |-> "", lines |-> r ]

\* Return values of validate_ethereum_address
RetInvalidEthereum ==
    [ kind |-> "invalid", text |-> "Invalid Ethereum address", lines |-> << >> ]

\* f"Valid Ethereum address. Checksum valid: {is_checksum}"
RetValid(is_checksum) ==
    [ kind |-> "valid",
      text |-> IF is_checksum THEN "Valid Ethereum address. Checksum valid: True"
               ELSE "Valid Ethereum address. Checksum valid: False",
      lines |-> << >> ]

\* f"Error validating address: {str(e)}": text holds str(e)
RetValidateError(e) == [ kind |-> "validate_error", text |-> e, lines |-> << >> ]

\* Where get_web3 returns to, and what the caller's except clause returns.
AfterGetWeb3 == IF tool = "validate_ethereum_address" THEN "is_checksum" ELSE "is_connected"

CallerError(e) == IF tool = "validate_ethereum_address" THEN RetValidateError(e) ELSE RetError(e)

StorageCall(t, slot, ans) == [ op |-> "get_storage_at", target |-> t, arg |-> slot, ans |-> ans ]

MethodCall(t, m, ans) == [ op |-> "call", target |-> t, arg |-> m, ans |-> ans ]

----------------------------------------------------------------------------
(* check_contract_owner, step by step *)

Init ==
    /\ tool = "check_contract_owner"
    /\ delay = DEFAULT_DELAY
    /\ req = << >>
    /\ rpcs = PUBLIC_RPCS
    /\ chain = << >>
    /\ address \in Inputs
    /\ pc = "start"
    /\ max_retries = DEFAULT_MAX_RETRIES
    /\ attempt = 0
    /\ last_exception = "None"
    /\ sleeps = << >>
    /\ op_calls = 0
    /\ rpc_idx = 1
    /\ gw_invoked = 0
    /\ gw_log = << >>
    /\ gw_ok = { }
    /\ web3 = 0
    /\ recheck = 0
    /\ proxy = None
    /\ proxy_owner = None
    /\ impl = None
    /\ impl_owner = None
    /\ m_idx = 1
    /\ result = << >>
    /\ calls = << >>
    /\ ret = NoRet

\* Mutant: the transport is acquired without validating the address.
ValidateAddress_NoValidation ==
    /\ pc = "start"
    /\ pc' = "get_web3"
    /\ gw_invoked' = gw_invoked + 1
    /\ WrapperStart(DEFAULT_MAX_RETRIES)
    /\ UNCHANGED << tool, delay, req, rpcs, chain, address, sleeps, rpc_idx, gw_log, gw_ok, web3, recheck, proxy,
                    proxy_owner, impl, impl_owner, m_idx, result, calls, ret >>

\* if not is_address(address): return "Invalid contract address."
\* otherwise web3 = get_web3() is entered.
ValidateAddress ==
    /\ pc = "start"
    /\ IF ~is_address(address)
       THEN /\ ret' = RetInvalid
            /\ pc' = "done"
            /\ UNCHANGED << max_retries, attempt, last_exception, op_calls, gw_invoked >>
       ELSE /\ pc' = "get_web3"
            /\ gw_invoked' = gw_invoked + 1
            /\ WrapperStart(DEFAULT_MAX_RETRIES)
            /\ UNCHANGED ret
    /\ UNCHANGED << tool, delay, req, rpcs, chain, address, sleeps, rpc_idx, gw_log, gw_ok, web3, recheck, proxy,
                    proxy_owner, impl, impl_owner, m_idx, result, calls >>

\* Mutant: the handle is returned whenever is_connected() does not raise.
LivenessCheck_IgnoresAnswer ==
    /\ pc = "get_web3"
    /\ ~WrapperExhausted
    /\ rpc_idx <= Len(PUBLIC_RPCS)
    /\ \E a \in LivenessAnswers :
         /\ gw_log' = Append(gw_log, rpc_idx)
         /\ op_calls' = IF rpc_idx = 1 THEN op_calls + 1 ELSE op_calls
         /\ IF a # "raise"
            THEN /\ web3' = rpc_idx
                 /\ gw_ok' = IF a = "True" THEN gw_ok \cup { Len(gw_log) + 1 } ELSE gw_ok
                 /\ pc' = "is_connected"
                 /\ UNCHANGED rpc_idx
            ELSE /\ rpc_idx' = rpc_idx + 1
                 /\ UNCHANGED << web3, gw_ok, pc >>
    /\ UNCHANGED << tool, delay, req, rpcs, chain, address, max_retries, attempt, last_exception, sleeps, gw_invoked,
                    recheck, proxy, proxy_owner, impl, impl_owner, m_idx, result,
                    calls, ret >>

\* Mutant: a failed check is repeated on the same endpoint, max_retries times,
\* before the next endpoint is tried.
LivenessCheck_PerEndpoint ==
    /\ pc = "get_web3"
    /\ ~WrapperExhausted
    /\ rpc_idx <= Len(PUBLIC_RPCS)
    /\ \E a \in LivenessAnswers :
         /\ gw_log' = Append(gw_log, rpc_idx)
         /\ op_calls' = IF rpc_idx = 1 THEN op_calls + 1 ELSE op_calls
         /\ IF a = "True"
            THEN /\ web3' = rpc_idx
                 /\ gw_ok' = gw_ok \cup { Len(gw_log) + 1 }
                 /\ pc' = "is_connected"
                 /\ UNCHANGED rpc_idx
            ELSE /\ rpc_idx' =
                      IF Cardinality({ i \in 1..Len(gw_log) : gw_log[i] = rpc_idx }) + 1
                            < DEFAULT_MAX_RETRIES
                      THEN rpc_idx
                      ELSE rpc_idx + 1
                 /\ UNCHANGED << web3, gw_ok, pc >>
    /\ UNCHANGED << tool, delay, req, rpcs, chain, address, max_retries, attempt, last_exception, sleeps, gw_invoked,
                    recheck, proxy, proxy_owner, impl, impl_owner, m_idx, result,
                    calls, ret >>

\* One iteration of "for rpc_url in PUBLIC_RPCS" in get_web3.
LivenessCheck ==
    /\ pc = "get_web3"
    /\ ~WrapperExhausted
    /\ rpc_idx <= Len(PUBLIC_RPCS)
    /\ \E a \in LivenessAnswers :
         /\ gw_log' = Append(gw_log, rpc_idx)
         /\ op_calls' = IF rpc_idx = 1 THEN op_calls + 1 ELSE op_calls
         /\ IF a = "True"
            THEN /\ web3' = rpc_idx
                 /\ gw_ok' = gw_ok \cup { Len(gw_log) + 1 }
                 /\ pc' = AfterGetWeb3
                 /\ UNCHANGED rpc_idx
            ELSE /\ rpc_idx' = rpc_idx + 1
                 /\ UNCHANGED << web3, gw_ok, pc >>
    /\ UNCHANGED << tool, delay, req, rpcs, chain, address, max_retries, attempt, last_exception, sleeps, gw_invoked,
                    recheck, proxy, proxy_owner, impl, impl_owner, m_idx, result,
                    calls, ret >>

\* get_web3 found no endpoint: raise Exception("Unable to connect ..."), which
\* the wrapper catches.
WalkFailed ==
    /\ pc = "get_web3"
    /\ ~WrapperExhausted
    /\ rpc_idx > Len(PUBLIC_RPCS)
    /\ WrapperExcept("Unable to connect to any Ethereum RPC endpoint")
    /\ rpc_idx' = 1
    /\ UNCHANGED << tool, delay, req, rpcs, chain, address, pc, op_calls, gw_invoked, gw_log, gw_ok, web3, recheck,
                    proxy, proxy_owner, impl, impl_owner, m_idx, result, calls, ret >>

\* raise last_exception in the wrapper, caught by the tool's except clause.
RetriesExhausted ==
    /\ pc \in { "get_web3", "read_proxy_owner", "read_impl", "read_impl_owner" }
    /\ WrapperExhausted
    /\ ret' = CallerError(last_exception)
    /\ pc' = "done"
    /\ UNCHANGED << tool, delay, req, rpcs, chain, address, max_retries, attempt, last_exception, sleeps, op_calls,
                    rpc_idx, gw_invoked, gw_log, gw_ok, web3, recheck, proxy,
                    proxy_owner, impl, impl_owner, m_idx, result, calls >>

\* if not web3.is_connected(): return "Error: Cannot connect ..."
\* then proxy = to_checksum(address); result = []
ConnectedCheck ==
    /\ pc = "is_connected"
    /\ recheck' = recheck + 1
    /\ \E a \in LivenessAnswers :
         CASE a = "True" ->
                /\ proxy' = to_checksum(address)
                /\ result' = << >>
                /\ pc' = "read_proxy_owner"
                /\ WrapperStart(DEFAULT_MAX_RETRIES)
                /\ UNCHANGED ret
           [] a = "False" ->
                /\ ret' = RetCannotConnect
                /\ pc' = "done"
                /\ UNCHANGED << proxy, result, max_retries, attempt, last_exception, op_calls >>
           [] OTHER ->
                /\ ret' = RetError("is_connected failed")
                /\ pc' = "done"
                /\ UNCHANGED << proxy, result, max_retries, attempt, last_exception, op_calls >>
    /\ UNCHANGED << tool, delay, req, rpcs, chain, address, sleeps, rpc_idx, gw_invoked, gw_log, gw_ok, web3,
                    proxy_owner, impl, impl_owner, m_idx, calls >>

\* Mutant: the owner-style methods are probed before the implementation is
\* resolved.
ReadProxyOwner_ThenProbe ==
    /\ pc = "read_proxy_owner"
    /\ ~WrapperExhausted
    /\ \E a \in StorageAnswers :
         LET out == read_owner_slot(a)
         IN  /\ calls' = Append(calls, StorageCall(proxy, ZERO_SLOT, a))
             /\ proxy_owner' = out.val
             /\ result' = IF out.val # None
                          THEN Append(result, ProxyOwnerLine(proxy, out.val))
                          ELSE result
             /\ pc' = "probe"
             /\ WrapperStart(DEFAULT_MAX_RETRIES)
             /\ UNCHANGED sleeps
    /\ UNCHANGED << tool, delay, req, rpcs, chain, address, rpc_idx, gw_invoked, gw_log,
                    gw_ok, web3, recheck, proxy, impl, impl_owner, m_idx, ret >>

\* proxy_owner = read_owner_slot(proxy, web3), one attempt of the wrapper
ReadProxyOwner ==
    /\ pc = "read_proxy_owner"
    /\ ~WrapperExhausted
    /\ \E a \in StorageAnswers :
         LET out == read_owner_slot(a)
         IN  /\ calls' = Append(calls, StorageCall(proxy, ZERO_SLOT, a))
             /\ IF out.raised
                THEN /\ WrapperExcept(out.err)
                     /\ op_calls' = op_calls + 1
                     /\ UNCHANGED << pc, proxy_owner, result >>
                ELSE /\ proxy_owner' = out.val
                     /\ result' = IF out.val # None
                                  THEN Append(result, ProxyOwnerLine(proxy, out.val))
                                  ELSE result
                     /\ pc' = "read_impl"
                     /\ WrapperStart(DEFAULT_MAX_RETRIES)
                     /\ UNCHANGED sleeps
    /\ UNCHANGED << tool, delay, req, rpcs, chain, address, rpc_idx, gw_invoked, gw_log, gw_ok, web3, recheck, proxy,
                    impl, impl_owner, m_idx, ret >>

\* impl = get_eip1967_impl(proxy, web3), one attempt of the wrapper
ReadImpl ==
    /\ pc = "read_impl"
    /\ ~WrapperExhausted
    /\ \E a \in StorageAnswers :
         LET out == get_eip1967_impl(a)
         IN  /\ calls' = Append(calls, StorageCall(proxy, IMPL_SLOT, a))
             /\ IF out.raised
                THEN /\ WrapperExcept(out.err)
                     /\ op_calls' = op_calls + 1
                     /\ UNCHANGED << pc, impl, result, m_idx >>
                ELSE /\ impl' = out.val
                     /\ IF out.val # None
                        THEN /\ result' = Append(result, ImplLine(out.val))
                             /\ pc' = "read_impl_owner"
                        ELSE /\ pc' = "probe"
                             /\ UNCHANGED result
                     /\ m_idx' = 1
                     /\ WrapperStart(DEFAULT_MAX_RETRIES)
                     /\ UNCHANGED sleeps
    /\ UNCHANGED << tool, delay, req, rpcs, chain, address, rpc_idx, gw_invoked, gw_log, gw_ok, web3, recheck, proxy,
                    proxy_owner, impl_owner, ret >>

\* impl_owner = read_owner_slot(impl, web3), one attempt of the wrapper
ReadImplOwner ==
    /\ pc = "read_impl_owner"
    /\ ~WrapperExhausted
    /\ \E a \in StorageAnswers :
         LET out == read_owner_slot(a)
         IN  /\ calls' = Append(calls, StorageCall(impl, ZERO_SLOT, a))
             /\ IF out.raised
                THEN /\ WrapperExcept(out.err)
                     /\ op_calls' = op_calls + 1
                     /\ UNCHANGED << pc, impl_owner, result >>
                ELSE /\ impl_owner' = out.val
                     /\ result' = IF out.val # None
                                  THEN Append(result, ImplOwnerLine(impl, out.val))
                                  ELSE result
                     /\ pc' = "probe"
                     /\ UNCHANGED << max_retries, attempt, last_exception, sleeps, op_calls >>
    /\ UNCHANGED << tool, delay, req, rpcs, chain, address, rpc_idx, gw_invoked, gw_log, gw_ok, web3, recheck, proxy,
                    proxy_owner, impl, m_idx, ret >>

\* Mutant: the probes always go to the original address.
ProbeTarget_AlwaysProxy == proxy

\* contract = web3.eth.contract(address=impl) in the if branch, address=proxy
\* in the else branch
ProbeTarget == IF impl # None THEN impl ELSE proxy

\* Mutant: the test of the returned value without int(owner, 16) != 0.
Accepted_NoZeroCheck(a) == a.ok /\ is_address(a.val)

\* The value of a call answer is accepted as an owner.
Accepted(a) == a.ok /\ is_address(a.val) /\ int16_nonzero(a.val)

\* Mutant: the loop over the methods has no break.
ProbeMethod_NoBreak ==
    /\ pc = "probe"
    /\ m_idx <= Len(methods)
    /\ \E a \in CallAnswers :
         /\ calls' = Append(calls, MethodCall(ProbeTarget, methods[m_idx], a))
         /\ result' = IF Accepted(a)
                      THEN Append(result,
                             IF impl # None
                             THEN ImplProbeLine(methods[m_idx], to_checksum(a.val))
                             ELSE ContractProbeLine(methods[m_idx], to_checksum(a.val)))
                      ELSE result
         /\ m_idx' = m_idx + 1
         /\ pc' = IF m_idx = Len(methods) THEN "assemble" ELSE "probe"
    /\ UNCHANGED << tool, delay, req, rpcs, chain, address, max_retries, attempt, last_exception, sleeps, op_calls,
                    rpc_idx, gw_invoked, gw_log, gw_ok, web3, recheck, proxy,
                    proxy_owner, impl, impl_owner, ret >>

\* One iteration of "for m in methods": the call, the test of its value, and
\* break or continue.
ProbeMethod ==
    /\ pc = "probe"
    /\ m_idx <= Len(methods)
    /\ \E a \in CallAnswers :
         /\ calls' = Append(calls, MethodCall(ProbeTarget, methods[m_idx], a))
         /\ IF Accepted(a)
            THEN /\ result' = Append(result,
                                IF impl # None
                                THEN ImplProbeLine(methods[m_idx], to_checksum(a.val))
                                ELSE ContractProbeLine(methods[m_idx], to_checksum(a.val)))
                 /\ pc' = "assemble"
                 /\ UNCHANGED m_idx
            ELSE /\ m_idx' = m_idx + 1
                 /\ pc' = IF m_idx = Len(methods) THEN "assemble" ELSE "probe"
                 /\ UNCHANGED result
    /\ UNCHANGED << tool, delay, req, rpcs, chain, address, max_retries, attempt, last_exception, sleeps, op_calls,
                    rpc_idx, gw_invoked, gw_log, gw_ok, web3, recheck, proxy,
                    proxy_owner, impl, impl_owner, ret >>

\* Mutant: not-found is returned whenever no owner-style method answered.
Assemble_ProbeOnly ==
    /\ pc = "assemble"
    /\ ret' = IF \A i \in 1..Len(result) : result[i].method = ""
              THEN RetNotFound
              ELSE RetReport(result)
    /\ pc' = "done"
    /\ UNCHANGED << tool, delay, req, rpcs, chain, address, max_retries, attempt, last_exception, sleeps, op_calls,
                    rpc_idx, gw_invoked, gw_log, gw_ok, web3, recheck, proxy,
                    proxy_owner, impl, impl_owner, m_idx, result, calls >>

\* if not result: return "Contract does not implement ..."; return "\n".join(result)
Assemble ==
    /\ pc = "assemble"
    /\ ret' = IF result = << >> THEN RetNotFound ELSE RetReport(result)
    /\ pc' = "done"
    /\ UNCHANGED << tool, delay, req, rpcs, chain, address, max_retries, attempt, last_exception, sleeps, op_calls,
                    rpc_idx, gw_invoked, gw_log, gw_ok, web3, recheck, proxy,
                    proxy_owner, impl, impl_owner, m_idx, result, calls >>

Next ==
    \/ ValidateAddress
    \/ LivenessCheck
    \/ WalkFailed
    \/ RetriesExhausted
    \/ ConnectedCheck
    \/ ReadProxyOwner
    \/ ReadImpl
    \/ ReadImplOwner
    \/ ProbeMethod
    \/ Assemble

Spec == Init /\ [][Next]_vars

TypeOK ==
    /\ pc \in { "start", "get_web3", "is_connected", "read_proxy_owner", "read_impl",
                "read_impl_owner", "probe", "assemble", "done" }
    /\ web3 \in 0..Len(PUBLIC_RPCS)
    /\ attempt \in 0..max_retries

----------------------------------------------------------------------------
(* retry_on_failure around an arbitrary operation, for every max_retries    *)

\* Values the wrapped operation can return and errors it can raise.
OpValues == { << "v1" >>, << "v2" >> }

OpErrors == { "E1", "E2" }

OpCall(ans, e) == [ op |-> "operation", target |-> None, arg |-> e, ans |-> ans ]

RetReturned(v) == [ kind |-> "returned", text |-> "", lines |-> v ]

RetRaised(e) == [ kind |-> "raised", text |-> e, lines |-> << >> ]

RetryInit ==
    /\ tool = "operation"
    /\ delay \in 1..MaxDelay
    /\ req = << >>
    /\ rpcs = PUBLIC_RPCS
    /\ chain = << >>
    /\ address = << >>
    /\ pc = "retry"
    /\ max_retries \in 1..MaxRetries
    /\ attempt = 0
    /\ last_exception = "None"
    /\ sleeps = << >>
    /\ op_calls = 0
    /\ rpc_idx = 1
    /\ gw_invoked = 0
    /\ gw_log = << >>
    /\ gw_ok = { }
    /\ web3 = 0
    /\ recheck = 0
    /\ proxy = None
    /\ proxy_owner = None
    /\ impl = None
    /\ impl_owner = None
    /\ m_idx = 1
    /\ result = << >>
    /\ calls = << >>
    /\ ret = NoRet

\* try: return func(*args, **kwargs)
OperationReturns ==
    /\ pc = "retry"
    /\ ~WrapperExhausted
    /\ \E v \in OpValues :
         /\ calls' = Append(calls, OpCall(Answer(v), ""))
         /\ ret' = RetReturned(v)
    /\ op_calls' = op_calls + 1
    /\ pc' = "done"
    /\ UNCHANGED << tool, delay, req, rpcs, chain, address, max_retries, attempt, last_exception, sleeps, rpc_idx,
                    gw_invoked, gw_log, gw_ok, web3, recheck, proxy, proxy_owner,
                    impl, impl_owner, m_idx, result >>

\* func raises: the except branch of the wrapper
OperationRaises ==
    /\ pc = "retry"
    /\ ~WrapperExhausted
    /\ \E e \in OpErrors :
         /\ calls' = Append(calls, OpCall(Fail, e))
         /\ WrapperExcept(e)
    /\ op_calls' = op_calls + 1
    /\ UNCHANGED << tool, delay, req, rpcs, chain, address, pc, rpc_idx, gw_invoked, gw_log, gw_ok, web3, recheck,
                    proxy, proxy_owner, impl, impl_owner, m_idx, result, ret >>

\* raise last_exception
WrapperRaises ==
    /\ pc = "retry"
    /\ WrapperExhausted
    /\ ret' = RetRaised(last_exception)
    /\ pc' = "done"
    /\ UNCHANGED << tool, delay, req, rpcs, chain, address, max_retries, attempt, last_exception, sleeps, op_calls,
                    rpc_idx, gw_invoked, gw_log, gw_ok, web3, recheck, proxy,
                    proxy_owner, impl, impl_owner, m_idx, result, calls >>

RetryNext ==
    \/ OperationReturns
    \/ OperationRaises
    \/ WrapperRaises

RetrySpec == RetryInit /\ [][RetryNext]_vars

----------------------------------------------------------------------------
(* Helpers of the properties *)

Range(s) == { s[i] : i \in 1..Len(s) }

\* How often endpoint e was liveness-checked among the first n checks.
Count(e, n) == Cardinality({ i \in 1..n : gw_log[i] = e })

Pool == 1..Len(PUBLIC_RPCS)

IsMethodCall(c) == c.op = "call"

IsStorageCall(c) == c.op = "get_storage_at"

MethodCalls == SelectSeq(calls, IsMethodCall)

StorageCalls == SelectSeq(calls, IsStorageCall)

\* The address a storage answer carries, None when it carries none.
AnswerAddress(ans) ==
    IF ans.ok /\ is_address(Last40(ans.val)) /\ int16_nonzero(Last40(ans.val))
    THEN to_checksum_address(Last40(ans.val))
    ELSE None

\* The address an owner-style call answer carries, None when it carries none.
CallAddress(ans) ==
    IF ans.ok /\ is_address(ans.val) /\ int16_nonzero(ans.val)
    THEN to_checksum_address(ans.val)
    ELSE None

IsProbeLine(l) == l.method # ""

ProbeLines(r) == SelectSeq(r, IsProbeLine)

UnableToConnect == "Unable to connect to any Ethereum RPC endpoint"

----------------------------------------------------------------------------
(* Properties *)

\* C1: an argument that is not a syntactically valid address gets the
\* invalid-address answer and causes no network traffic: get_web3 is not
\* invoked, no liveness check, no storage read and no contract call is made.
C1_InvalidAddressNoNetwork ==
    ~is_address(address) =>
        /\ gw_invoked = 0
        /\ gw_log = << >>
        /\ recheck = 0
        /\ calls = << >>
        /\ web3 = 0
        /\ pc \in { "start", "done" }
        /\ pc = "done" => ret = RetInvalid

C1_Witness == pc = "done" /\ ~is_address(address) /\ ret = RetInvalid

\* C2: get_web3 checks the endpoints in the order of PUBLIC_RPCS and returns
\* the handle of the first endpoint whose check answers True; nothing is
\* contacted after that endpoint; when that endpoint answers True on its first
\* check, exactly the endpoints 1..k were checked, in that order; a check that
\* answers False or raises only moves on to the next endpoint.
C2_FirstLiveEndpointInOrder ==
    /\ \A i \in 1..Len(gw_log) : gw_log[i] = ((i - 1) % Len(PUBLIC_RPCS)) + 1
    /\ web3 # 0 =>
         /\ gw_log # << >>
         /\ gw_log[Len(gw_log)] = web3
         /\ gw_ok = { Len(gw_log) }
         /\ Count(web3, Len(gw_log)) = 1 => gw_log = [ i \in 1..web3 |-> i ]
    /\ web3 = 0 =>
         /\ gw_ok = { }
         /\ pc \in { "start", "get_web3", "done", "retry" }
         /\ (pc = "get_web3" /\ ~WrapperExhausted) =>
              /\ ret = NoRet
              /\ rpc_idx = Len(gw_log) - attempt * Len(PUBLIC_RPCS) + 1

C2_Witness == web3 = 3 /\ gw_log = << 1, 2, 3 >> /\ pc = "is_connected"

\* C3 as stated: the retries are per endpoint, so all checks of endpoint i
\* come before the first check of endpoint i+1.
C3_RetryPerEndpoint ==
    \A p, q \in 1..Len(gw_log) : p < q => gw_log[p] <= gw_log[q]

\* C3, amended: the retry policy of get_web3 applies to a whole walk over the
\* pool.  A walk checks each endpoint once; a walk in which every check failed
\* is followed, after the backoff, by another walk, up to max_retries walks.  So
\* when endpoint e is checked for the n-th time, every endpoint before it in
\* the pool has been checked n times and every endpoint after it n-1 times.
C3_RetryPerWalk ==
    /\ \A i \in 1..Len(gw_log) :
         LET e == gw_log[i]
             n == Count(e, i)
         IN  /\ n <= DEFAULT_MAX_RETRIES
             /\ \A f \in Pool : Count(f, i) = IF f <= e THEN n ELSE n - 1
    /\ pc = "get_web3" =>
         /\ Len(gw_log) = attempt * Len(PUBLIC_RPCS) + IF WrapperExhausted THEN 0 ELSE rpc_idx - 1
         /\ Len(sleeps) = IF attempt < max_retries THEN attempt ELSE max_retries - 1
         /\ \A k \in 1..Len(sleeps) : sleeps[k] = DEFAULT_DELAY * k

C3_Witness == web3 = 2 /\ gw_log = << 1, 2, 3, 4, 1, 2 >> /\ sleeps = << 1 >>

\* C4: the number of liveness checks of one get_web3 call never exceeds
\* len(pool) * max_retries, and get_web3 gives up, with the
\* unable-to-connect error, exactly when max_retries walks have failed: every
\* endpoint has then been checked max_retries times and none answered True.
C4_Safety ==
    /\ Len(gw_log) <= Len(PUBLIC_RPCS) * DEFAULT_MAX_RETRIES
    /\ (pc = "get_web3" /\ WrapperExhausted) =>
         /\ last_exception = UnableToConnect
         /\ gw_ok = { }
         /\ \A e \in Pool : Count(e, Len(gw_log)) = DEFAULT_MAX_RETRIES
    /\ (pc = "done" /\ gw_invoked > 0 /\ web3 = 0) =>
         /\ ret = RetError(UnableToConnect)
         /\ \A e \in Pool : Count(e, Len(gw_log)) = DEFAULT_MAX_RETRIES
    /\ (gw_ok = { } /\ Len(gw_log) = Len(PUBLIC_RPCS) * DEFAULT_MAX_RETRIES) =>
         \/ pc = "get_web3" /\ web3 = 0
         \/ pc = "done" /\ ret = RetError(UnableToConnect)

\* C4, with termination: a get_web3 call that is under way always comes to an
\* end, by a handle or by the error.
C4_AllUnreachableTerminates ==
    /\ []C4_Safety
    /\ (pc = "get_web3") ~> (pc # "get_web3")

C4_Witness ==
    /\ pc = "done"
    /\ ret = RetError(UnableToConnect)
    /\ Len(gw_log) = Len(PUBLIC_RPCS) * DEFAULT_MAX_RETRIES
    /\ gw_ok = { }

\* get_web3 as check_contract_owner calls it, up to its return or its error.
GetWeb3Next ==
    \/ ValidateAddress
    \/ LivenessCheck
    \/ WalkFailed
    \/ RetriesExhausted

\* No step of get_web3 waits for anything but its own remote call, which ends
\* by an answer or by the timeout: a step that is possible is taken.
GetWeb3FairSpec == Init /\ [][GetWeb3Next]_vars /\ WF_vars(GetWeb3Next)


\* C5: the wrapper invokes the operation at most max_retries times; the first
\* invocation that returns ends the run with that value and nothing is invoked
\* after it; when all max_retries invocations raise, the wrapper raises the
\* error of the last invocation.
C5_RetryWrapper ==
    /\ op_calls = Len(calls)
    /\ op_calls <= max_retries
    /\ \A i \in 1..(Len(calls) - 1) : ~calls[i].ans.ok
    /\ ret.kind = "returned" =>
         /\ calls # << >>
         /\ calls[Len(calls)].ans = Answer(ret.lines)
    /\ ret.kind = "raised" =>
         /\ op_calls = max_retries
         /\ \A i \in 1..Len(calls) : ~calls[i].ans.ok
         /\ ret.text = calls[Len(calls)].arg
    /\ pc = "done" <=> ret.kind \in { "returned", "raised" }
    /\ (pc = "retry" /\ WrapperExhausted) => \A i \in 1..Len(calls) : ~calls[i].ans.ok

C5_Witness ==
    /\ ret = RetRaised("E2")
    /\ max_retries = 3
    /\ Len(calls) = 3
    /\ calls[1].arg = "E1"

\* C6: the owner-style methods are called in the order owner, getOwner, admin,
\* getAdmin; the first call whose value is a valid non-zero address ends the
\* probing: its method and address are reported, no later method is called,
\* and the report has at most one probed-owner line.
C6_ProbeOrderShortCircuit ==
    /\ Len(MethodCalls) <= Len(methods)
    /\ \A i \in 1..Len(MethodCalls) :
         /\ MethodCalls[i].arg = methods[i]
         /\ i < Len(MethodCalls) => CallAddress(MethodCalls[i].ans) = None
    /\ Len(ProbeLines(result)) <= 1
    /\ \A i \in 1..Len(MethodCalls) :
         CallAddress(MethodCalls[i].ans) # None =>
            /\ Len(ProbeLines(result)) = 1
            /\ ProbeLines(result)[1].method = methods[i]
            /\ ProbeLines(result)[1].owner = CallAddress(MethodCalls[i].ans)
            /\ pc \in { "assemble", "done" }
    /\ ProbeLines(result) # << >> =>
         CallAddress(MethodCalls[Len(MethodCalls)].ans) # None
    /\ pc = "done" => ProbeLines(ret.lines) = ProbeLines(result)

C6_Witness ==
    /\ pc = "done"
    /\ Len(MethodCalls) = 2
    /\ ProbeLines(ret.lines) = << ContractProbeLine("getOwner", << "1", "A" >>) >>

\* C7: all owner-style calls of one request go to one target: the
\* implementation when one was resolved, also when every call on it fails, and
\* the original address otherwise.  Slot 0 of the implementation is read only
\* when an implementation was resolved.
C7_SingleProbeTarget ==
    /\ \A i \in 1..Len(MethodCalls) :
         MethodCalls[i].target = IF impl # None THEN impl ELSE proxy
    /\ \A i \in 1..Len(StorageCalls) :
         LET c == StorageCalls[i]
         IN  /\ i = 1 => c.arg = ZERO_SLOT /\ c.target = proxy
             /\ i = 2 => c.arg = IMPL_SLOT /\ c.target = proxy
             /\ i = 3 => c.arg = ZERO_SLOT /\ c.target = impl /\ impl # None
    /\ Len(StorageCalls) <= 3
    /\ (impl # None /\ pc \in { "probe", "assemble", "done" }) => Len(StorageCalls) = 3
    /\ (impl = None /\ pc \in { "probe", "assemble", "done" } /\ proxy # None) =>
         Len(StorageCalls) = 2
    /\ (MethodCalls # << >> /\ impl # None) =>
         impl = AnswerAddress(StorageCalls[2].ans)
    /\ (MethodCalls # << >> /\ impl = None) =>
         AnswerAddress(StorageCalls[2].ans) = None

C7_Witness ==
    /\ pc = "done"
    /\ impl = << "0", "1" >>
    /\ proxy = << "1", "A" >>
    /\ Len(MethodCalls) = Len(methods)
    /\ \A i \in 1..Len(MethodCalls) :
         MethodCalls[i].target = impl /\ CallAddress(MethodCalls[i].ans) = None

\* C8: once the address is validated and the transport acquired (proxy is
\* set), every later step is taken whatever the earlier ones answered, and the
\* call ends with the report or the not-found answer; the failure answers come
\* only from validation and transport acquisition, before any read.
C8_DownstreamNeverAborts ==
    /\ (pc = "done" /\ proxy # None) =>
         /\ ret.kind \in { "report", "not_found" }
         /\ Len(StorageCalls) = IF AnswerAddress(StorageCalls[2].ans) # None THEN 3 ELSE 2
         /\ MethodCalls # << >>
         /\ \/ Len(MethodCalls) = Len(methods)
            \/ CallAddress(MethodCalls[Len(MethodCalls)].ans) # None
    /\ ret.kind \in { "invalid", "cannot_connect", "error" } =>
         /\ proxy = None
         /\ calls = << >>
    /\ proxy # None => pc \in { "read_proxy_owner", "read_impl", "read_impl_owner",
                                 "probe", "assemble", "done" }

C8_Witness ==
    /\ pc = "done"
    /\ ret.kind = "report"
    /\ StorageCalls[1].ans = Fail
    /\ StorageCalls[2].ans = Fail
    /\ Len(MethodCalls) = Len(methods)
    /\ \A i \in 1..3 : MethodCalls[i].ans = Fail

\* C9: when the implementation slot of the address holds a non-zero address X
\* and owner() on X returns a non-zero address A, the report names the
\* implementation X and the probed owner (owner, A).
C9_ProxyOwnerScenario ==
    (pc = "done" /\ Len(StorageCalls) >= 2 /\ AnswerAddress(StorageCalls[2].ans) # None) =>
        LET X == AnswerAddress(StorageCalls[2].ans)
        IN  /\ ret.kind = "report"
            /\ ImplLine(X) \in Range(ret.lines)
            /\ MethodCalls # << >>
            /\ MethodCalls[1].arg = "owner"
            /\ MethodCalls[1].target = X
            /\ CallAddress(MethodCalls[1].ans) # None =>
                 /\ ImplProbeLine("owner", CallAddress(MethodCalls[1].ans)) \in Range(ret.lines)
                 /\ Len(MethodCalls) = 1

C9_Witness ==
    /\ pc = "done"
    /\ Len(StorageCalls) = 3
    /\ StorageCalls[2].ans = Answer(<< "0", "1", "a" >>)
    /\ MethodCalls = << MethodCall(<< "1", "A" >>, "owner", Answer(<< "1", "a" >>)) >>
    /\ ImplLine(<< "1", "A" >>) \in Range(ret.lines)
    /\ ImplProbeLine("owner", << "1", "A" >>) \in Range(ret.lines)

\* No answer of the request carried a finding.
NoFinding ==
    /\ \A i \in 1..Len(StorageCalls) : AnswerAddress(StorageCalls[i].ans) = None
    /\ \A i \in 1..Len(MethodCalls) : CallAddress(MethodCalls[i].ans) = None

\* C10: with a valid address and a live transport the tool returns the
\* not-found message, and not an error, exactly when the proxy's slot-0 owner,
\* the implementation, the implementation's slot-0 owner and the probed owner
\* are all absent.
C10_NotFoundIffNoFinding ==
    (pc = "done" /\ proxy # None) =>
        /\ ret = RetNotFound <=> NoFinding
        /\ ret # RetNotFound => ret = RetReport(result) /\ result # << >>
        /\ NoFinding <=> (proxy_owner = None /\ impl = None /\ impl_owner = None
                            /\ ProbeLines(result) = << >>)

C10_Witness ==
    /\ pc = "done"
    /\ ret = RetNotFound
    /\ StorageCalls = << StorageCall(proxy, ZERO_SLOT, Answer(<< "0", "0", "0" >>)),
                         StorageCall(proxy, IMPL_SLOT, Answer(<< "0", "0", "0" >>)) >>
    /\ Len(MethodCalls) = Len(methods)
    /\ \A i \in 1..Len(MethodCalls) : MethodCalls[i].ans = Fail


ReadOutcome(i) == CASE i = 1 -> proxy_owner [] i = 2 -> impl [] OTHER -> impl_owner

C12_OnlyStageMessages ==
    ret.kind \in { "none", "invalid", "cannot_connect", "not_found", "report" }

\* C13: when the request has returned, the handle it acquired is released.
C13_HandleReleased == pc = "done" => web3 = 0

\* C14: the all-zero address gets the invalid-address answer, without
\* transport acquisition and without any read.
C14_ZeroAddressInvalid ==
    address = << "0", "0" >> =>
        /\ gw_invoked = 0
        /\ gw_log = << >>
        /\ calls = << >>
        /\ pc = "done" => ret = RetInvalid

\* Order of the positions of the handler.
Rank(p) ==
    CASE p = "start" -> 0
      [] p = "get_web3" -> 1
      [] p = "is_connected" -> 2
      [] p = "read_proxy_owner" -> 3
      [] p = "read_impl" -> 4
      [] p = "read_impl_owner" -> 5
      [] p = "probe" -> 6
      [] p = "assemble" -> 7
      [] OTHER -> 8

C17_Order ==
    /\ gw_invoked > 0 => is_address(address)
    /\ calls # << >> => web3 # 0 /\ gw_ok # { } /\ recheck = 1
    /\ \A i, j \in 1..Len(calls) :
         (i < j /\ IsMethodCall(calls[i])) => IsMethodCall(calls[j])
    /\ \A i \in 1..Len(StorageCalls) :
         /\ StorageCalls[i].arg = << ZERO_SLOT, IMPL_SLOT, ZERO_SLOT >>[i]
         /\ StorageCalls[i].target = IF i = 3 THEN impl ELSE proxy
    /\ Len(StorageCalls) <= 3
    /\ Len(StorageCalls) = 3 => impl # None
    /\ MethodCalls # << >> => Len(StorageCalls) = IF impl # None THEN 3 ELSE 2
    /\ ret.kind \in { "report", "not_found" } => MethodCalls # << >>

C17_Step ==
    /\ Rank(pc') >= Rank(pc)
    /\ Rank(pc) > Rank("is_connected") =>
         /\ gw_log' = gw_log
         /\ recheck' = recheck
         /\ web3' = web3
         /\ gw_invoked' = gw_invoked
    /\ Rank(pc) >= Rank("probe") => StorageCalls' = StorageCalls
    /\ Rank(pc) >= Rank("assemble") => calls' = calls /\ result' = result
    /\ calls' # calls => pc \in { "read_proxy_owner", "read_impl", "read_impl_owner", "probe" }

\* C17: the steps of one call follow each other in the order validation,
\* transport acquisition, proxy slot-0 read, implementation-slot read on the
\* original address, implementation slot-0 read (only with an implementation),
\* owner-method probes, report assembly; no read or call is sent before a
\* liveness check has passed, and no step runs again once a later one started.
C17_StrictStepOrder == []C17_Order /\ [][C17_Step]_vars

C17_Witness ==
    /\ pc = "done"
    /\ ret.kind = "report"
    /\ Len(gw_log) = 5
    /\ Len(StorageCalls) = 3
    /\ Len(MethodCalls) = 2

\* The i-th and the j-th call are the same request to the chain.
SameRead(i, j) ==
    /\ calls[i].op = calls[j].op
    /\ calls[i].target = calls[j].target
    /\ calls[i].arg = calls[j].arg

\* Number of failed attempts in a row of the read that ends at call i.
FailedRun(i) ==
    Cardinality({ j \in 1..i : \A k \in j..i : ~calls[k].ans.ok /\ SameRead(k, i) })

\* C18: a storage read whose remote call failed is attempted again, until it
\* answers or max_retries attempts have failed.
C18_FailedReadIsRetried ==
    \A i \in 1..Len(calls) :
        (IsStorageCall(calls[i]) /\ ~calls[i].ans.ok /\ FailedRun(i) < DEFAULT_MAX_RETRIES) =>
            /\ i < Len(calls) => SameRead(i + 1, i)
            /\ i = Len(calls) => attempt = FailedRun(i)

\* C19: a method whose call fails, or whose value is the zero address or
\* malformed, counts as a negative for that method only: the next method is
\* tried, the call as a whole does not fail, and when all four are negative
\* there is no probed owner.
C19_NegativeProbeContinues ==
    /\ \A i \in 1..Len(MethodCalls) :
         LET a == MethodCalls[i].ans
         IN  (~a.ok \/ ~int16_nonzero(a.val) \/ Len(a.val) # AddrLen) =>
                /\ i < Len(methods) =>
                     \/ pc = "probe" /\ m_idx = i + 1 /\ Len(MethodCalls) = i
                     \/ /\ Len(MethodCalls) > i
                        /\ MethodCalls[i + 1].arg = methods[i + 1]
                        /\ MethodCalls[i + 1].target = MethodCalls[i].target
                /\ i = Len(methods) =>
                     /\ pc \in { "assemble", "done" }
                     /\ ProbeLines(result) = << >>
    /\ MethodCalls # << >> => ret.kind \in { "none", "report", "not_found" }
    /\ (pc = "done" /\ Len(MethodCalls) = Len(methods) /\ ProbeLines(result) = << >>) =>
         /\ ProbeLines(ret.lines) = << >>
         /\ result = << >> => ret = RetNotFound

C19_Witness ==
    /\ pc = "done"
    /\ Len(MethodCalls) = Len(methods)
    /\ MethodCalls[1].ans = Fail
    /\ MethodCalls[2].ans = Answer(<< "0", "0" >>)
    /\ MethodCalls[3].ans = Answer(<< "1" >>)
    /\ MethodCalls[4].ans = Fail
    /\ ret = RetNotFound


----------------------------------------------------------------------------
(* validate_ethereum_address *)

ValidateInit ==
    /\ tool = "validate_ethereum_address"
    /\ delay = DEFAULT_DELAY
    /\ req = << >>
    /\ rpcs = PUBLIC_RPCS
    /\ chain = << >>
    /\ address \in ValidateInputs
    /\ pc = "start"
    /\ max_retries = DEFAULT_MAX_RETRIES
    /\ attempt = 0
    /\ last_exception = "None"
    /\ sleeps = << >>
    /\ op_calls = 0
    /\ rpc_idx = 1
    /\ gw_invoked = 0
    /\ gw_log = << >>
    /\ gw_ok = { }
    /\ web3 = 0
    /\ recheck = 0
    /\ proxy = None
    /\ proxy_owner = None
    /\ impl = None
    /\ impl_owner = None
    /\ m_idx = 1
    /\ result = << >>
    /\ calls = << >>
    /\ ret = NoRet

\* Mutant: the transport is acquired before the address is looked at.
ValidateEthereumAddress_TransportFirst ==
    /\ pc = "start"
    /\ pc' = "get_web3"
    /\ gw_invoked' = gw_invoked + 1
    /\ WrapperStart(DEFAULT_MAX_RETRIES)
    /\ UNCHANGED << tool, delay, req, rpcs, chain, address, sleeps, rpc_idx, gw_log,
                    gw_ok, web3, recheck, proxy, proxy_owner, impl, impl_owner, m_idx,
                    result, calls, ret >>

\* is_valid = is_address(address); if is_valid: web3 = get_web3() ...
\* return "Invalid Ethereum address"
ValidateEthereumAddress ==
    /\ pc = "start"
    /\ IF is_address(address)
       THEN /\ pc' = "get_web3"
            /\ gw_invoked' = gw_invoked + 1
            /\ WrapperStart(DEFAULT_MAX_RETRIES)
            /\ UNCHANGED ret
       ELSE /\ ret' = RetInvalidEthereum
            /\ pc' = "done"
            /\ UNCHANGED << max_retries, attempt, last_exception, op_calls, gw_invoked >>
    /\ UNCHANGED << tool, delay, req, rpcs, chain, address, sleeps, rpc_idx, gw_log,
                    gw_ok, web3, recheck, proxy, proxy_owner, impl, impl_owner, m_idx,
                    result, calls >>

\* is_checksum = web3.is_checksum_address(address); return f"Valid ..."
ChecksumCheck ==
    /\ pc = "is_checksum"
    /\ ret' = RetValid(is_checksum_address(address))
    /\ pc' = "done"
    /\ UNCHANGED << tool, delay, req, rpcs, chain, address, max_retries, attempt,
                    last_exception, sleeps, op_calls, rpc_idx, gw_invoked, gw_log, gw_ok,
                    web3, recheck, proxy, proxy_owner, impl, impl_owner, m_idx, result,
                    calls >>

ValidateNext ==
    \/ ValidateEthereumAddress
    \/ LivenessCheck
    \/ WalkFailed
    \/ RetriesExhausted
    \/ ChecksumCheck

ValidateSpec == ValidateInit /\ [][ValidateNext]_vars

\* C16: validate_ethereum_address answers 'Invalid Ethereum address' for every
\* argument that is not a syntactically valid address, None, the empty
\* string, a non-string and a too-short hex string among them, and then never
\* enters get_web3: no endpoint is contacted.
C16_InvalidWithoutTransport ==
    ~is_address(address) =>
        /\ gw_invoked = 0
        /\ gw_log = << >>
        /\ web3 = 0
        /\ pc \in { "start", "done" }
        /\ pc = "done" => ret = RetInvalidEthereum

C16_Witness == pc = "done" /\ address = << "123" >> /\ ret = RetInvalidEthereum


----------------------------------------------------------------------------
(* Two check_contract_owner requests running concurrently.  Everything a    *)
(* request writes is a local of its own call; the only module-level object  *)
(* the requests read is the list PUBLIC_RPCS.  The endpoints and the chain  *)
(* answer the same question the same way throughout.                        *)

ReqIds == { 1, 2 }

ConcInputs == { << "0", "g" >>, << "0", "1" >>, << "1", "a" >> }

ConcAddrs == { << "0", "1" >>, << "1", "A" >> }

NoHandle == [ owner |-> 0, ep |-> "" ]

\* Web3(Web3.HTTPProvider(rpc_url, ...)) made by request id
Handle(id, url) == [ owner |-> id, ep |-> url ]

LivePatterns ==
    { [ u \in Range(PUBLIC_RPCS) |-> "False" ],
      [ u \in Range(PUBLIC_RPCS) |-> IF u = PUBLIC_RPCS[3] THEN "True"
                                     ELSE IF u = PUBLIC_RPCS[1] THEN "raise" ELSE "False" ],
      [ u \in Range(PUBLIC_RPCS) |-> IF u = PUBLIC_RPCS[4] THEN "False" ELSE "True" ] }

\* What the owner-style methods of a contract answer.
CallProfile(k) ==
    [ m \in Range(methods) |->
        IF k = "getOwner" /\ m = "getOwner" THEN Answer(<< "1", "a" >>)
        ELSE IF k = "getOwner" /\ m = "owner" THEN Answer(<< "0", "0" >>)
        ELSE Fail ]

ChainStates ==
    { [ live |-> l, slot0 |-> s0, implslot |-> si, call |-> [ a \in ConcAddrs |-> CallProfile(c[a]) ] ] :
        l \in LivePatterns,
        s0 \in [ ConcAddrs -> { Fail, Answer(<< "0", "0", "1" >>) } ],
        si \in [ ConcAddrs -> { Answer(<< "0", "0", "0" >>), Answer(<< "0", "1", "a" >>) } ],
        c \in [ ConcAddrs -> { "none", "getOwner" } ] }

NewReq(a) ==
    [ address |-> a, pc |-> "start", attempt |-> 0, rpc_idx |-> 1,
      last_exception |-> "None", web3 |-> NoHandle, used |-> { }, proxy |-> None,
      impl |-> None, m_idx |-> 1, result |-> << >>, ret |-> NoRet ]

\* The next step of request id, whose locals are q, with the pool as it is.
CStep(id, q, pool) ==
    CASE q.pc = "start" ->
           IF ~is_address(q.address)
           THEN [ q EXCEPT !.ret = RetInvalid, !.pc = "done" ]
           ELSE [ q EXCEPT !.pc = "get_web3", !.attempt = 0, !.rpc_idx = 1,
                           !.last_exception = "None" ]
      [] q.pc = "get_web3" ->
           IF q.attempt >= DEFAULT_MAX_RETRIES
           THEN [ q EXCEPT !.ret = RetError(q.last_exception), !.pc = "done" ]
           ELSE IF q.rpc_idx > Len(pool)
           THEN [ q EXCEPT !.attempt = q.attempt + 1, !.rpc_idx = 1,
                           !.last_exception = "Unable to connect to any Ethereum RPC endpoint" ]
           ELSE IF chain.live[pool[q.rpc_idx]] = "True"
           THEN [ q EXCEPT !.web3 = Handle(id, pool[q.rpc_idx]), !.pc = "is_connected" ]
           ELSE [ q EXCEPT !.rpc_idx = q.rpc_idx + 1 ]
      [] q.pc = "is_connected" ->
           LET a == chain.live[q.web3.ep]
               u == [ q EXCEPT !.used = q.used \cup { q.web3.owner } ]
           IN  IF a = "True"
               THEN [ u EXCEPT !.proxy = to_checksum(q.address), !.result = << >>,
                               !.pc = "read_proxy_owner" ]
               ELSE IF a = "False"
               THEN [ u EXCEPT !.ret = RetCannotConnect, !.pc = "done" ]
               ELSE [ u EXCEPT !.ret = RetError("is_connected failed"), !.pc = "done" ]
      [] q.pc = "read_proxy_owner" ->
           LET out == read_owner_slot(chain.slot0[q.proxy])
           IN  [ q EXCEPT !.used = q.used \cup { q.web3.owner },
                          !.result = IF out.val # None
                                     THEN Append(q.result, ProxyOwnerLine(q.proxy, out.val))
                                     ELSE q.result,
                          !.pc = "read_impl" ]
      [] q.pc = "read_impl" ->
           LET out == get_eip1967_impl(chain.implslot[q.proxy])
           IN  [ q EXCEPT !.used = q.used \cup { q.web3.owner },
                          !.impl = out.val,
                          !.result = IF out.val # None
                                     THEN Append(q.result, ImplLine(out.val))
                                     ELSE q.result,
                          !.m_idx = 1,
                          !.pc = IF out.val # None THEN "read_impl_owner" ELSE "probe" ]
      [] q.pc = "read_impl_owner" ->
           LET out == read_owner_slot(chain.slot0[q.impl])
           IN  [ q EXCEPT !.used = q.used \cup { q.web3.owner },
                          !.result = IF out.val # None
                                     THEN Append(q.result, ImplOwnerLine(q.impl, out.val))
                                     ELSE q.result,
                          !.pc = "probe" ]
      [] q.pc = "probe" ->
           LET t == IF q.impl # None THEN q.impl ELSE q.proxy
               m == methods[q.m_idx]
               a == chain.call[t][m]
               u == [ q EXCEPT !.used = q.used \cup { q.web3.owner } ]
           IN  IF Accepted(a)
               THEN [ u EXCEPT !.result = Append(q.result,
                                            IF q.impl # None
                                            THEN ImplProbeLine(m, to_checksum(a.val))
                                            ELSE ContractProbeLine(m, to_checksum(a.val))),
                               !.pc = "assemble" ]
               ELSE [ u EXCEPT !.m_idx = q.m_idx + 1,
                               !.pc = IF q.m_idx = Len(methods) THEN "assemble" ELSE "probe" ]
      [] q.pc = "assemble" ->
           [ q EXCEPT !.ret = IF q.result = << >> THEN RetNotFound ELSE RetReport(q.result),
                      !.pc = "done" ]
      [] OTHER -> q

ConcInit ==
    /\ tool = "check_contract_owner"
    /\ delay = DEFAULT_DELAY
    /\ req \in [ ReqIds -> { NewReq(a) : a \in ConcInputs } ]
    /\ rpcs = PUBLIC_RPCS
    /\ chain \in ChainStates
    /\ address = << >>
    /\ pc = "conc"
    /\ max_retries = DEFAULT_MAX_RETRIES
    /\ attempt = 0
    /\ last_exception = "None"
    /\ sleeps = << >>
    /\ op_calls = 0
    /\ rpc_idx = 1
    /\ gw_invoked = 0
    /\ gw_log = << >>
    /\ gw_ok = { }
    /\ web3 = 0
    /\ recheck = 0
    /\ proxy = None
    /\ proxy_owner = None
    /\ impl = None
    /\ impl_owner = None
    /\ m_idx = 1
    /\ result = << >>
    /\ calls = << >>
    /\ ret = NoRet

\* Mutant: get_web3 removes an endpoint that failed its check from the
\* module-level list (PUBLIC_RPCS.remove(rpc_url)).
ConcStep_RemovesDeadEndpoint(id) ==
    /\ req[id].pc # "done"
    /\ req' = [ req EXCEPT ![id] = CStep(id, req[id], rpcs) ]
    /\ rpcs' = IF /\ req[id].pc = "get_web3"
                  /\ req[id].attempt < DEFAULT_MAX_RETRIES
                  /\ req[id].rpc_idx <= Len(rpcs)
                  /\ chain.live[rpcs[req[id].rpc_idx]] # "True"
               THEN LET dead == rpcs[req[id].rpc_idx]
                        Keep(u) == u # dead
                    IN  SelectSeq(rpcs, Keep)
               ELSE rpcs
    /\ UNCHANGED << tool, delay, chain, address, pc, max_retries, attempt, last_exception,
                    sleeps, op_calls, rpc_idx, gw_invoked, gw_log, gw_ok, web3, recheck,
                    proxy, proxy_owner, impl, impl_owner, m_idx, result, calls, ret >>

\* Request id takes its next step; the other request and the pool stay as
\* they are, since the step writes locals only.
ConcStep(id) ==
    /\ req[id].pc # "done"
    /\ req' = [ req EXCEPT ![id] = CStep(id, req[id], rpcs) ]
    /\ UNCHANGED << tool, delay, rpcs, chain, address, pc, max_retries, attempt,
                    last_exception, sleeps, op_calls, rpc_idx, gw_invoked, gw_log, gw_ok,
                    web3, recheck, proxy, proxy_owner, impl, impl_owner, m_idx, result,
                    calls, ret >>

ConcNext == \E id \in ReqIds : ConcStep(id)

ConcSpec == ConcInit /\ [][ConcNext]_vars

\* The request with argument a, run alone to its end.
RECURSIVE RunAlone(_, _)
RunAlone(id, q) == IF q.pc = "done" THEN q ELSE RunAlone(id, CStep(id, q, PUBLIC_RPCS))

\* C15: whatever the interleaving of two requests, each returns what it
\* returns when run alone against the same chain and endpoints, each sends its
\* remote calls through the handle it made itself, and the endpoint pool and
\* the list of probe methods stay as they were.
C15_NoInterference ==
    /\ rpcs = PUBLIC_RPCS
    /\ \A id \in ReqIds :
         LET q == req[id]
         IN  /\ q.pc = "done" => q.ret = RunAlone(id, NewReq(q.address)).ret
             /\ q.web3 # NoHandle => q.web3.owner = id
             /\ q.used \subseteq { id }
             /\ q.pc # "done" => q.ret = NoRet

C15_Witness ==
    /\ req[1].pc = "done"
    /\ req[1].ret.kind = "report"
    /\ req[2].pc = "read_impl"
    /\ req[2].web3 = Handle(2, PUBLIC_RPCS[3])
    /\ req[1].address # req[2].address

====
